---- MODULE Spec2Model ----
(***************************************************************************)
(* Lineage inference of the muller package.                                *)
(*                                                                         *)
(* LineageWorkflow.run (muller/inheritance/genotype_lineage.py; the same   *)
(* algorithm is duplicated in muller/inheritance/order.py) builds an       *)
(* Ancestry graph from a sorted genotype table: manual ancestry is         *)
(* injected first, then every genotype is scored against the rows above    *)
(* it.  muller_workflow.workflow is the command line pipeline that ends    *)
(* in that nesting step.                                                   *)
(*                                                                         *)
(* A genotype label 'genotype-<k>' is modelled by the natural number k.    *)
(* The Ancestry class and the scorer are imported by the sources but are   *)
(* not part of them; they are modelled from the design document.           *)
(***************************************************************************)
EXTENDS Integers, Sequences, FiniteSets, TLC

\* ---------------------------------------------------------------- bounds
MaxN == 3          \* longest sorted table
MaxKnown == 2      \* most entries of a manual ancestry map
MaxRuns == 2       \* calls of LineageWorkflow.run on one workflow object

\* ------------------------------------------------------------- constants
genotype_0 == 0    \* the literal 'genotype-0' of add_known_lineages
OverridePriority == 100
ACCEPTED_METHODS == {"matlab", "hierarchy"}

NoLabel == -1      \* None
NoMethod == "none"
Methods == ACCEPTED_METHODS \cup {"twostep"}
ScoreValues == {0, 1}                        \* totalScore values, all < 100
TieScoreValues == {0, OverridePriority}      \* a scorer that can reach 100

\* the labels a manual ancestry map may name: 'genotype-0' .. 'genotype-3'
KnownLabels == {0, 1, 2, 3}
Labels == (0 .. MaxN) \cup KnownLabels

\* ---------------------------------------------------------------- inputs
\* Sorted tables: unique labels; row 0 is 'genotype-0' by convention only.
ConventionalTable(n) == [p \in 1 .. n |-> p - 1]
SwappedTable(n) == [p \in 1 .. n |-> IF p = 1 THEN 1 ELSE IF p = 2 THEN 0 ELSE p - 1]
ShiftedTable(n) == [p \in 1 .. n |-> p]
Tables ==
    UNION {{ConventionalTable(n), ShiftedTable(n)} \cup
           (IF n >= 2 THEN {SwappedTable(n)} ELSE {}) : n \in 0 .. MaxN}

\* Manual ancestry: a dict, iterated in insertion order; keys are unique.
KnownMaps ==
    {ka \in UNION {[1 .. m -> KnownLabels \X KnownLabels] : m \in 0 .. MaxKnown} :
        \A a, b \in DOMAIN ka : a # b => ka[a][1] # ka[b][1]}

VARIABLES
    pc,               \* position of the caller / of run
    caller,           \* "none", "workflow" (command line) or "test" (direct call)
    method,           \* program_options.method
    imported,         \* the input table has been imported
    sorted,           \* sort_genotypes has run
    sorted_genotypes, \* the table handed to run
    known_ancestry,   \* the manual ancestry handed to run
    genotype_nests,   \* self.genotype_nests, the Ancestry graph
    score_records,    \* self.score_records, one record per scored pair
    k,                \* next entry of known_ancestry.items()
    i,                \* row of unnested_label (0-based)
    scan,             \* next element of test_table
    score_values,     \* the totals the scorer can produce
    err,              \* the exception that ended the call
    raised_in,        \* where it was raised
    runs,             \* calls of run so far
    calls             \* the calls of add_genotype_to_background accepted in this
                      \* call of run, in order: <<kind, genotype, background, priority>>

vars == <<pc, caller, method, imported, sorted, sorted_genotypes, known_ancestry,
          genotype_nests, score_records, k, i, scan, score_values, err, raised_in, runs,
          calls>>

\* ------------------------------------------------------------ the table
Row(t, r) == t[r + 1]                       \* sorted_genotypes.index[r]
Index(t) == {t[p] : p \in DOMAIN t}         \* sorted_genotypes.index
HasRow0_always(t) == TRUE
HasRow0(t) == Len(t) > 0                    \* iloc[0] is in bounds
Row0(t) == IF Len(t) > 0 THEN t[1] ELSE NoLabel

\* ------------------------------------------------------- Ancestry graph
NoGraph == [root |-> NoLabel, confidence |-> [g \in Labels |-> <<>>]]
Ancestry(initial_background) ==
    [root |-> initial_background, confidence |-> [g \in Labels |-> <<>>]]

\* add_genotype_to_background rejects a genotype as its own background.
InvalidReference(genotype, background) == genotype = background

add_genotype_to_background(nests, genotype, background, priority) ==
    [nests EXCEPT !.confidence[genotype] = Append(@, <<background, priority>>)]

Better_or_equal(candidate, best) == candidate[2] >= best[2]
Better(candidate, best) == candidate[2] > best[2]

RECURSIVE BestFrom(_, _, _)
BestFrom(candidates, n, best) ==
    IF n > Len(candidates) THEN best
    ELSE BestFrom(candidates, n + 1,
                  IF Better(candidates[n], best) THEN candidates[n] ELSE best)

get_highest_priority(nests, genotype) ==
    IF nests.confidence[genotype] = <<>> THEN NoLabel
    ELSE BestFrom(nests.confidence[genotype], 2, nests.confidence[genotype][1])[1]

\* unknown-genotype error of get_highest_priority
UnknownGenotype(nests, genotype) ==
    nests.confidence[genotype] = <<>> /\ genotype # nests.root

as_dict(nests) ==
    [g \in {h \in Labels : h # nests.root /\ nests.confidence[h] # <<>>} |->
        get_highest_priority(nests, g)]

\* ------------------------------------------------------------ the sweep
\* sorted_genotypes[:unnested_label].iloc[::-1]: rows i, i-1, ..., 0
test_table_skip_root(r) == [p \in 1 .. r |-> r + 1 - p]
test_table_ascending(r) == [p \in 1 .. r + 1 |-> p - 1]
test_table(r) == [p \in 1 .. r + 1 |-> r + 1 - p]

Skipped_never(nested_label, unnested_label) == FALSE
Skipped(nested_label, unnested_label) == nested_label = unnested_label

\* --------------------------------------------------------- the workflow
ValidMethod_any(cluster_method) == TRUE
ValidMethod(cluster_method) == cluster_method \in ACCEPTED_METHODS

Raise(kind, where) ==
    /\ pc' = "error"
    /\ err' = kind
    /\ raised_in' = where

NoError == UNCHANGED <<err, raised_in>>

TypeOK ==
    /\ pc \in {"idle", "parse", "import", "sort", "nest", "inject", "sweep",
               "show", "returned", "output", "finished", "error"}
    /\ caller \in {"none", "workflow", "test"}
    /\ method \in Methods \cup {NoMethod}
    /\ imported \in BOOLEAN /\ sorted \in BOOLEAN
    /\ sorted_genotypes \in Tables
    /\ known_ancestry \in KnownMaps
    /\ runs \in 0 .. MaxRuns

Start ==
    /\ pc = "idle"
    /\ caller = "none"
    /\ method = NoMethod
    /\ imported = FALSE
    /\ sorted = FALSE
    /\ sorted_genotypes = <<>>
    /\ known_ancestry = <<>>
    /\ genotype_nests = NoGraph
    /\ score_records = <<>>
    /\ k = 1 /\ i = 1 /\ scan = 1
    /\ err = "none"
    /\ raised_in = "none"
    /\ runs = 0
    /\ calls = <<>>

Init == Start /\ score_values = ScoreValues
InitTie == Start /\ score_values = TieScoreValues

\* workflow(input_filename, output_folder, program_options) is entered
StartWorkflow ==
    /\ pc = "idle" /\ caller = "none"
    /\ \E m \in Methods : method' = m
    /\ caller' = "workflow"
    /\ pc' = "parse"
    /\ UNCHANGED <<imported, sorted, sorted_genotypes, known_ancestry, genotype_nests,
                   score_records, k, i, scan, score_values, err, raised_in, runs, calls>>

\* parse_workflow_options: the option objects are built, then the method is checked
ParseOptions ==
    /\ pc = "parse"
    /\ IF ValidMethod(method)
          THEN pc' = "import" /\ NoError
          ELSE Raise("ValueError", "parse")
    /\ UNCHANGED <<caller, method, imported, sorted, sorted_genotypes, known_ancestry,
                   genotype_nests, score_records, k, i, scan, score_values, runs, calls>>

ImportData ==
    /\ pc = "import"
    /\ imported' = TRUE
    /\ pc' = "sort"
    /\ UNCHANGED <<caller, method, sorted, sorted_genotypes, known_ancestry, genotype_nests,
                   score_records, k, i, scan, score_values, err, raised_in, runs, calls>>

SortGenotypes ==
    /\ pc = "sort"
    /\ \E t \in Tables : sorted_genotypes' = t
    /\ sorted' = TRUE
    /\ pc' = "nest"
    /\ UNCHANGED <<caller, method, imported, known_ancestry, genotype_nests,
                   score_records, k, i, scan, score_values, err, raised_in, runs, calls>>

\* run, lines 68-69: iloc[0] of the table, then the construction of the Ancestry;
\* the loop variables are locals of the new call
RunEntry(t, ka) ==
    /\ sorted_genotypes' = t
    /\ known_ancestry' = ka
    /\ runs' = runs + 1
    /\ k' = 1 /\ i' = 1 /\ scan' = 1
    /\ calls' = <<>>
    /\ IF HasRow0(t)
          THEN /\ genotype_nests' = Ancestry(Row0(t))
               /\ pc' = "inject"
               /\ err' = "none" /\ raised_in' = "none"
          ELSE /\ Raise("IndexError", "init")
               /\ UNCHANGED genotype_nests

\* the nesting step of the workflow: no manual ancestry is passed
NestCall ==
    /\ pc = "nest"
    /\ RunEntry(sorted_genotypes, <<>>)
    /\ UNCHANGED <<caller, method, imported, sorted, score_records, score_values>>

GenerateOutput ==
    /\ pc = "returned" /\ caller = "workflow"
    /\ pc' = "finished"
    /\ UNCHANGED <<caller, method, imported, sorted, sorted_genotypes, known_ancestry,
                   genotype_nests, score_records, k, i, scan, score_values, err, raised_in, runs, calls>>

\* lineage.run(table, known_ancestry) called directly, as the tests do
FirstRun ==
    /\ pc = "idle" /\ caller = "none"
    /\ runs < MaxRuns
    /\ caller' = "test"
    /\ \E t \in Tables, ka \in KnownMaps : RunEntry(t, ka)
    /\ UNCHANGED <<method, imported, sorted, score_records, score_values>>

\* the workflow object outlives a call, whether it returned or raised: run is
\* called again with the arguments of the call before, or on an empty table
RunAgain ==
    /\ pc \in {"returned", "error"} /\ caller = "test"
    /\ runs < MaxRuns
    /\ \E t \in {sorted_genotypes, <<>>} : RunEntry(t, known_ancestry)
    /\ UNCHANGED <<caller, method, imported, sorted, score_records, score_values>>

\* add_known_lineages, lines 44 and 46: the calls made for one entry, in order, as
\* <<kind, genotype, background>>
known_edges_unpinned(identity, parent) == <<<<"override", identity, parent>>>>
known_edges(identity, parent) ==
    <<<<"pin", parent, genotype_0>>, <<"override", identity, parent>>>>

\* the calls of a list are made in order; the first one that is rejected raises and
\* leaves the edges recorded before it
RECURSIVE AddAll(_, _, _, _)
AddAll(nests, made, edges, m) ==
    IF m > Len(edges) THEN [nests |-> nests, calls |-> made, raised |-> FALSE]
    ELSE IF InvalidReference(edges[m][2], edges[m][3])
        THEN [nests |-> nests, calls |-> made, raised |-> TRUE]
    ELSE AddAll(add_genotype_to_background(nests, edges[m][2], edges[m][3],
                                           OverridePriority),
                Append(made, <<edges[m][1], edges[m][2], edges[m][3], OverridePriority>>),
                edges, m + 1)

\* add_known_lineages: one iteration of the loop over known_ancestry.items()
AddKnownLineage ==
    /\ pc = "inject"
    /\ k <= Len(known_ancestry)
    /\ LET added == AddAll(genotype_nests, calls,
                           known_edges(known_ancestry[k][1], known_ancestry[k][2]), 1)
       IN  /\ genotype_nests' = added.nests
           /\ calls' = added.calls
           /\ IF added.raised
                 THEN Raise("InvalidReference", "inject") /\ UNCHANGED k
                 ELSE k' = k + 1 /\ pc' = "inject" /\ NoError
    /\ UNCHANGED <<caller, method, imported, sorted, sorted_genotypes, known_ancestry,
                   score_records, i, scan, score_values, runs>>

\* the loop over known_ancestry is exhausted: the sweep starts at row 1
BeginSweep ==
    /\ pc = "inject"
    /\ k > Len(known_ancestry)
    /\ pc' = "sweep"
    /\ i' = 1
    /\ scan' = 1
    /\ UNCHANGED <<caller, method, imported, sorted, sorted_genotypes, known_ancestry,
                   genotype_nests, score_records, k, score_values, err, raised_in, runs, calls>>

\* after one element of test_table: next element, or next row of the outer loop
Advance ==
    IF scan < Len(test_table(i))
       THEN scan' = scan + 1 /\ UNCHANGED i
       ELSE scan' = 1 /\ i' = i + 1

InSweep ==
    /\ pc = "sweep"
    /\ i <= Len(sorted_genotypes) - 1
    /\ scan <= Len(test_table(i))

unnested_label == Row(sorted_genotypes, i)
nested_label == Row(sorted_genotypes, test_table(i)[scan])

\* line 76: continue
SweepSkip ==
    /\ InSweep
    /\ Skipped(nested_label, unnested_label)
    /\ Advance
    /\ UNCHANGED <<pc, caller, method, imported, sorted, sorted_genotypes, known_ancestry,
                   genotype_nests, score_records, k, score_values, err, raised_in, runs, calls>>

\* lines 77-79: score the pair, keep the record, record the candidate edge
SweepScore ==
    /\ InSweep
    /\ ~Skipped(nested_label, unnested_label)
    /\ \E totalScore \in score_values :
          /\ score_records' = Append(score_records, <<nested_label, unnested_label>>)
          /\ IF InvalidReference(unnested_label, nested_label)
                THEN /\ Raise("InvalidReference", "sweep")
                     /\ UNCHANGED <<genotype_nests, i, scan, calls>>
                ELSE /\ genotype_nests' =
                            add_genotype_to_background(genotype_nests, unnested_label,
                                                       nested_label, totalScore)
                     /\ calls' = Append(calls, <<"sweep", unnested_label, nested_label,
                                                 totalScore>>)
                     /\ Advance
                     /\ UNCHANGED pc
                     /\ NoError
    /\ UNCHANGED <<caller, method, imported, sorted, sorted_genotypes, known_ancestry,
                   k, score_values, runs>>

\* the outer loop is exhausted
EndSweep ==
    /\ pc = "sweep"
    /\ i > Len(sorted_genotypes) - 1
    /\ pc' = "show"
    /\ UNCHANGED <<caller, method, imported, sorted, sorted_genotypes, known_ancestry,
                   genotype_nests, score_records, k, i, scan, score_values, err, raised_in, runs, calls>>

\* show_ancestry asks the best background of every label, then run returns the graph
ShowAncestry ==
    /\ pc = "show"
    /\ IF \E g \in Index(sorted_genotypes) : UnknownGenotype(genotype_nests, g)
          THEN Raise("UnknownGenotype", "show")
          ELSE pc' = "returned" /\ NoError
    /\ UNCHANGED <<caller, method, imported, sorted, sorted_genotypes, known_ancestry,
                   genotype_nests, score_records, k, i, scan, score_values, runs, calls>>

Next ==
    \/ StartWorkflow
    \/ ParseOptions
    \/ ImportData
    \/ SortGenotypes
    \/ NestCall
    \/ GenerateOutput
    \/ FirstRun
    \/ RunAgain
    \/ AddKnownLineage
    \/ BeginSweep
    \/ SweepSkip
    \/ SweepScore
    \/ EndSweep
    \/ ShowAncestry

Spec == Init /\ [][Next]_vars
SpecTie == InitTie /\ [][Next]_vars

\* ================================================================ claims
n == Len(sorted_genotypes)
root == genotype_nests.root
confidence == genotype_nests.confidence
mapping == as_dict(genotype_nests)              \* run(...).as_dict()
Completed == pc \in {"returned", "finished"}    \* run has returned the graph
Identities == {known_ancestry[e][1] : e \in DOMAIN known_ancestry}
Parents == {known_ancestry[e][2] : e \in DOMAIN known_ancestry}

\* The input keeps to the conventions of the design: row 0 is 'genotype-0', every
\* label of the manual map is in the table, no entry re-parents the root.
ConventionalRoot == Row0(sorted_genotypes) = genotype_0
KnownInTable ==
    /\ Identities \subseteq Index(sorted_genotypes) \ {Row0(sorted_genotypes)}
    /\ Parents \subseteq Index(sorted_genotypes)

EarlierParents(e) == {known_ancestry[d][2] : d \in 1 .. e - 1}
EarlierIdentities(e) == {known_ancestry[d][1] : d \in 1 .. e - 1}

RECURSIVE ReachesRoot(_, _, _)
ReachesRoot(m, g, hops) ==
    IF g = root THEN TRUE
    ELSE IF hops = 0 \/ g \notin DOMAIN m THEN FALSE
    ELSE ReachesRoot(m, m[g], hops - 1)

\* C2 - Acyclicity: after a completed run, following mapping from every genotype of
\* the table reaches the root in at most n hops.  Stated for manual maps whose labels
\* are all in the table.
Acyclicity ==
    (Completed /\ KnownInTable) =>
        \A g \in Index(sorted_genotypes) : ReachesRoot(mapping, g, n)

\* C3 - Totality: once the sweep is over every non-root genotype of the table holds
\* an automatic candidate edge to row 0, and after a completed run each of them has
\* its entry in the output mapping.
Totality ==
    /\ pc \in {"show", "returned", "finished"} =>
          \A r \in 1 .. n - 1 :
              \E e \in DOMAIN confidence[Row(sorted_genotypes, r)] :
                  /\ confidence[Row(sorted_genotypes, r)][e][1] = Row0(sorted_genotypes)
                  /\ confidence[Row(sorted_genotypes, r)][e][2] \in score_values
    /\ Completed =>
          \A r \in 1 .. n - 1 :
              /\ Row(sorted_genotypes, r) \in DOMAIN mapping
              /\ mapping[Row(sorted_genotypes, r)] # NoLabel

TotalityWitness ==
    /\ pc = "returned"
    /\ n >= 3
    /\ known_ancestry # <<>>
    /\ \A r \in 1 .. n - 1 : Row(sorted_genotypes, r) \in DOMAIN mapping

\* C4 - Root invariant: the root never holds a candidate edge and is never a key of
\* the output mapping.  Stated for tables whose row 0 is 'genotype-0'.
RootInvariant ==
    root = genotype_0 =>
        /\ confidence[root] = <<>>
        /\ root \notin DOMAIN mapping

\* C5 - No self-parent: no candidate edge and no entry of the output mapping joins a
\* genotype to itself; the sweep never offers a genotype as its own background (the
\* invalid-reference error is never raised by the sweep); a manual entry {A: A}
\* never yields a completed run.
NoSelfParent ==
    /\ \A g \in Labels : \A e \in DOMAIN confidence[g] : confidence[g][e][1] # g
    /\ \A g \in DOMAIN mapping : mapping[g] # g
    /\ raised_in # "sweep"
    /\ Completed => \A e \in DOMAIN known_ancestry :
                        known_ancestry[e][1] # known_ancestry[e][2]

NoSelfParentWitness ==
    /\ pc = "error"
    /\ err = "InvalidReference"
    /\ n >= 2
    /\ \E e \in DOMAIN known_ancestry :
          /\ known_ancestry[e][1] = known_ancestry[e][2]
          /\ known_ancestry[e][1] \in Index(sorted_genotypes) \ {Row0(sorted_genotypes)}

\* the total recorded for the pair (row j, row r) of the sweep
TotalOf(r, j) ==
    LET c == confidence[Row(sorted_genotypes, r)]
    IN  c[CHOOSE e \in DOMAIN c : c[e][1] = Row(sorted_genotypes, j)][2]

\* C6 - Without manual ancestry the output maps the genotype of every row r >= 1 to
\* the genotype of the row j < r whose total is maximal, and among the rows tied at
\* the maximum to the largest j.
ReferenceMapping ==
    (Completed /\ known_ancestry = <<>>) =>
        \A r \in 1 .. n - 1 :
            \E j \in 0 .. r - 1 :
                /\ mapping[Row(sorted_genotypes, r)] = Row(sorted_genotypes, j)
                /\ \A j2 \in 0 .. r - 1 :
                      /\ TotalOf(r, j2) <= TotalOf(r, j)
                      /\ j2 > j => TotalOf(r, j2) < TotalOf(r, j)

ReferenceMappingWitness ==
    /\ pc = "returned"
    /\ known_ancestry = <<>>
    /\ n >= 3
    /\ TotalOf(2, 0) = TotalOf(2, 1)
    /\ mapping[Row(sorted_genotypes, 2)] = Row(sorted_genotypes, 1)

\* the genotypes that hold a manual edge
Overridden == {known_ancestry[e][h] : e \in 1 .. k - 1, h \in {1, 2}}

\* C7 - get_highest_priority(g) is a candidate recorded at the maximum priority of g,
\* and no candidate recorded before it has that priority; a genotype with a manual
\* edge keeps its first manual edge against every later edge of priority 100.
EarliestMaximumWins ==
    \A g \in Labels :
        confidence[g] # <<>> =>
            /\ \E e \in DOMAIN confidence[g] :
                  /\ confidence[g][e][1] = get_highest_priority(genotype_nests, g)
                  /\ \A m \in DOMAIN confidence[g] :
                        /\ confidence[g][m][2] <= confidence[g][e][2]
                        /\ m < e => confidence[g][m][2] < confidence[g][e][2]
            /\ (pc \in {"inject", "sweep", "show", "returned"} /\ g \in Overridden) =>
                  get_highest_priority(genotype_nests, g) = confidence[g][1][1]

EarliestMaximumWinsWitness ==
    /\ pc = "returned"
    /\ Len(known_ancestry) = 1
    /\ LET g == known_ancestry[1][1]
           c == confidence[g]
       IN  /\ g \in Index(sorted_genotypes) \ {Row0(sorted_genotypes)}
           /\ Len(c) >= 3
           /\ c[1][2] = OverridePriority
           /\ c[Len(c)][2] = OverridePriority
           /\ c[Len(c)][1] # c[1][1]
           /\ get_highest_priority(genotype_nests, g) = known_ancestry[1][2]

\* C8 - With a method that is not accepted the workflow stops in
\* parse_workflow_options with a ValueError: nothing is imported or sorted, no pair
\* is scored and no candidate edge is recorded.
InvalidMethodFailsFirst ==
    (caller = "workflow" /\ method \notin ACCEPTED_METHODS) =>
        /\ pc \in {"parse", "error"}
        /\ pc = "error" => (err = "ValueError" /\ raised_in = "parse")
        /\ ~imported /\ ~sorted
        /\ runs = 0
        /\ score_records = <<>>
        /\ genotype_nests = NoGraph

InvalidMethodWitness ==
    /\ caller = "workflow"
    /\ method = "twostep"
    /\ pc = "error"
    /\ err = "ValueError"

\* C9 - A manual map that names a label absent from the table never yields a
\* completed run, and the output mapping holds no label absent from the table.
\* Stated for tables whose row 0 is 'genotype-0'.
UnknownLabelRejected ==
    (Completed /\ ConventionalRoot) =>
        /\ Identities \cup Parents \subseteq Index(sorted_genotypes)
        /\ \A g \in DOMAIN mapping :
              g \in Index(sorted_genotypes) /\ mapping[g] \in Index(sorted_genotypes)

\* C10 - A call of run on an empty table ends at once in the error of iloc[0]: the
\* graph of the workflow object and the score records are left as they were, and
\* neither the injection nor the sweep is entered.
EmptyTableFails ==
    [][(runs' = runs + 1 /\ Len(sorted_genotypes') = 0) =>
          /\ pc' = "error"
          /\ err' = "IndexError" /\ raised_in' = "init"
          /\ score_records' = score_records
          /\ genotype_nests' = genotype_nests]_vars

EmptyTableWitness ==
    /\ pc = "error"
    /\ err = "IndexError"
    /\ n = 0
    /\ runs = 2
    /\ score_records # <<>>
    /\ genotype_nests # NoGraph

\* the calls the sweep made in this call of run, in order
IsSweepCall(c) == c[1] = "sweep"
SweepCalls == SelectSeq(calls, IsSweepCall)
RowOf(label) == CHOOSE r \in 0 .. n - 1 : Row(sorted_genotypes, r) = label
Pairs(m) == (m * (m - 1)) \div 2

\* C11 - Sweep order: the sweep takes the rows i = 1 .. n - 1 in ascending order and,
\* for each, the rows i - 1, ..., 0 in descending order: the call number
\* i (i - 1) / 2 + (i - j) of the sweep, and no other, records the pair (row j, row i),
\* with its score record appended at the same step; every recorded background sits
\* above its genotype; the sweep ends after n (n - 1) / 2 scorings.
SweepOrder ==
    pc \in {"sweep", "show", "returned", "finished"} =>
        /\ \A x \in DOMAIN SweepCalls :
              LET ri == RowOf(SweepCalls[x][2])
                  rj == RowOf(SweepCalls[x][3])
              IN  /\ SweepCalls[x][2] \in Index(sorted_genotypes)
                  /\ SweepCalls[x][3] \in Index(sorted_genotypes)
                  /\ rj < ri
                  /\ x = Pairs(ri) + (ri - rj)
                  /\ Len(score_records) >= Len(SweepCalls)
                  /\ score_records[Len(score_records) - Len(SweepCalls) + x] =
                         <<SweepCalls[x][3], SweepCalls[x][2]>>
        /\ pc # "sweep" => Len(SweepCalls) = Pairs(n)

SweepOrderWitness ==
    /\ pc = "returned"
    /\ n >= 3
    /\ known_ancestry # <<>>
    /\ Len(SweepCalls) = Pairs(n)
    /\ SweepCalls[2][3] = Row(sorted_genotypes, 1)
    /\ SweepCalls[3][3] = Row(sorted_genotypes, 0)

\* C12 - Override injection: every entry {A: B} records exactly the two calls
\* (B -> root) then (A -> B) at priority 100, all of them before the first call of
\* the sweep, and as a result every declared parent is mapped to the root whatever
\* the order of the entries.  Stated for inputs that keep to the conventions.
OverrideInjection ==
    (Completed /\ ConventionalRoot /\ KnownInTable) =>
        /\ Len(calls) >= 2 * Len(known_ancestry)
        /\ \A e \in DOMAIN known_ancestry :
              /\ calls[2 * e - 1] =
                     <<"pin", known_ancestry[e][2], root, OverridePriority>>
              /\ calls[2 * e] =
                     <<"override", known_ancestry[e][1], known_ancestry[e][2],
                       OverridePriority>>
        /\ \A x \in DOMAIN calls : x > 2 * Len(known_ancestry) => IsSweepCall(calls[x])
        /\ \A e \in DOMAIN known_ancestry :
              known_ancestry[e][2] # root =>
                  /\ known_ancestry[e][2] \in DOMAIN mapping
                  /\ mapping[known_ancestry[e][2]] = root

\* C13 - A single manual entry {A: root}, A a non-root genotype of the table, is
\* accepted: the run raises no error and, once completed, mapping[A] = root.  Stated
\* for tables whose row 0 is 'genotype-0'.
RootParentAccepted ==
    (/\ caller = "test"
     /\ ConventionalRoot
     /\ Len(known_ancestry) = 1
     /\ known_ancestry[1][2] = Row0(sorted_genotypes)
     /\ known_ancestry[1][1] \in Index(sorted_genotypes) \ {Row0(sorted_genotypes)}) =>
        /\ pc # "error"
        /\ Completed => (/\ known_ancestry[1][1] \in DOMAIN mapping
                         /\ mapping[known_ancestry[1][1]] = root)

\* C14 - The edge that pins a declared parent targets the label of row 0, the root
\* the graph of the run was built with.
PinTargetsRow0 ==
    \A x \in DOMAIN calls :
        calls[x][1] = "pin" =>
            /\ calls[x][3] = Row0(sorted_genotypes)
            /\ calls[x][3] = root

\* C15 - The score log is owned by the run: after a completed run over n genotypes
\* it holds exactly n (n - 1) / 2 records, those of the pairs this run scored, in
\* sweep order.
LogOwnedByRun ==
    Completed =>
        /\ Len(score_records) = Pairs(n)
        /\ Len(score_records) = Len(SweepCalls)
        /\ \A x \in DOMAIN score_records :
              score_records[x] = <<SweepCalls[x][3], SweepCalls[x][2]>>

====
